---------------------------- MODULE Spec2Model ----------------------------
(***************************************************************************)
(* State-machine model of the virtio memory-balloon device                 *)
(* (hw/virtio/virtio-balloon.c): the Stats queue and its poll timer, the   *)
(* Free-Page queue and its report hooks, the Inflate/Deflate queues,       *)
(* device reset and the status callback.                                   *)
(*                                                                         *)
(* Integers wider than TLC's are kept as tuples of 16-bit limbs, most      *)
(* significant limb first: a 64-bit word is <<w3, w2, w1, w0>>, a 32-bit   *)
(* word is <<w1, w0>>.  Signed readings are two's complement.              *)
(***************************************************************************)
EXTENDS Integers, Sequences, FiniteSets, TLC

----------------------------------------------------------------------------
(* Bounds of the model. *)

\* chains the guest may place on the Stats and Free-Page rings in one run
MaxChains == 3
\* chains the guest may place on the Inflate and Deflate rings in one run
MaxOutputChains == 2
\* chains the guest may place on the Stats ring of the parsing specification
MaxParseChains == 2
\* feature callbacks one device may get: two for each negotiation round
MaxFeatureCalls == 4
\* chains the guest may place on the Stats ring of the timer specifications
MaxTimerChains == 2
\* chains the guest may place on the Stats ring of the polling specification
MaxPollChains == 2
\* seconds of virtual time the clock may advance
MaxNow == 2

----------------------------------------------------------------------------
(* Fixed-width arithmetic on limb tuples. *)

Limb == 2^16
Byte == 2^8

\* a small natural number as a 64-bit word
W64(n) == <<0, 0, (n \div Limb) % Limb, n % Limb>>

\* (int64_t)-1, also (uint64_t)-1
MinusOne64 == <<Limb - 1, Limb - 1, Limb - 1, Limb - 1>>

Zero64 == <<0, 0, 0, 0>>

\* the sign bit of a 64-bit word read as int64_t
I64Negative(w) == w[1] >= Limb \div 2

\* unsigned comparison a < b of two 64-bit words
U64Less(a, b) ==
    \/ a[1] < b[1]
    \/ a[1] = b[1] /\ a[2] < b[2]
    \/ a[1] = b[1] /\ a[2] = b[2] /\ a[3] < b[3]
    \/ a[1] = b[1] /\ a[2] = b[2] /\ a[3] = b[3] /\ a[4] < b[4]

\* signed comparison a < b of two 64-bit words
I64Less(a, b) ==
    IF I64Negative(a) # I64Negative(b) THEN I64Negative(a) ELSE U64Less(a, b)

\* a + b modulo 2^64
Add64(a, b) ==
    LET s0 == a[4] + b[4]
        s1 == a[3] + b[3] + (s0 \div Limb)
        s2 == a[2] + b[2] + (s1 \div Limb)
        s3 == a[1] + b[1] + (s2 \div Limb)
    IN  <<s3 % Limb, s2 % Limb, s1 % Limb, s0 % Limb>>

\* a * k modulo 2^64, for a small natural k
Mul64(a, k) ==
    LET m0 == a[4] * k
        m1 == (a[3] * k) + (m0 \div Limb)
        m2 == (a[2] * k) + (m1 \div Limb)
        m3 == (a[1] * k) + (m2 \div Limb)
    IN  <<m3 % Limb, m2 % Limb, m1 % Limb, m0 % Limb>>

\* a << n modulo 2^64, for 0 < n < 16
Shl64(a, n) ==
    LET up == 2^n
        dn == 2^(16 - n)
    IN  <<((a[1] * up) % Limb) + (a[2] \div dn),
          ((a[2] * up) % Limb) + (a[3] \div dn),
          ((a[3] * up) % Limb) + (a[4] \div dn),
          (a[4] * up) % Limb>>

\* a - b modulo 2^64
Sub64(a, b) ==
    LET complement == <<Limb - 1 - b[1], Limb - 1 - b[2], Limb - 1 - b[3],
                        Limb - 1 - b[4]>>
    IN  Add64(a, Add64(complement, <<0, 0, 0, 1>>))

\* a >> n, for 0 < n < 16
Shr64(a, n) ==
    LET dn == 2^n
        up == 2^(16 - n)
    IN  <<a[1] \div dn,
          ((a[1] % dn) * up) + (a[2] \div dn),
          ((a[2] % dn) * up) + (a[3] \div dn),
          ((a[3] % dn) * up) + (a[4] \div dn)>>

\* a 32-bit word widened to 64 bits, and a 64-bit word cut to 32
U32To64(w) == <<0, 0, w[1], w[2]>>
U64To32(w) == <<w[3], w[4]>>

\* UINT32_MAX as an int64_t
UINT32_MAX == <<0, 0, Limb - 1, Limb - 1>>

----------------------------------------------------------------------------
(* Descriptor chains and byte payloads. *)

\* the absent handle
NULL == [id |-> 0, out_num |-> 0, out |-> <<>>, in_num |-> 0, in |-> <<>>]

\* a chain: its output buffers' bytes (driver to device) and its input
\* buffers as (guest-physical address, length) ranges (device to driver)
Chain(id, out_num, out, in) ==
    [id |-> id, out_num |-> out_num, out |-> out, in_num |-> Len(in), in |-> in]

\* bytes [offset+1 .. offset+n] of the output payload, as iov_to_buf copies
\* them: fewer than n when the payload ends first
IovToBuf(elem, offset, n) ==
    IF offset >= Len(elem.out) THEN <<>>
    ELSE SubSeq(elem.out, offset + 1,
                IF offset + n <= Len(elem.out) THEN offset + n ELSE Len(elem.out))

\* little-endian wire encodings (the driver's side of the wire)
LE16(x) == <<x % Byte, x \div Byte>>
LE32(w) == LE16(w[2]) \o LE16(w[1])
LE64(w) == LE16(w[4]) \o LE16(w[3]) \o LE16(w[2]) \o LE16(w[1])

\* little-endian wire decodings (the device's side of the wire)
virtio_tswap16(b) == b[1] + (Byte * b[2])
virtio_ldl_p(b) == <<b[3] + (Byte * b[4]), b[1] + (Byte * b[2])>>
virtio_tswap64(b) ==
    <<b[7] + (Byte * b[8]), b[5] + (Byte * b[6]), b[3] + (Byte * b[4]), b[1] + (Byte * b[2])>>

----------------------------------------------------------------------------
(* The descriptor-ring transport: the chains available to the device in    *)
(* ring order, the number of its leading chains that were un-popped        *)
(* (rewound) and not yet popped again, the used ring and the               *)
(* notifications sent to the guest.                                        *)

EmptyRing ==
    [avail_idx |-> 0, avail |-> <<>>, rewound |-> 0, used |-> <<>>, notified |-> 0]

\* the guest makes a chain available; avail_idx counts the chains it ever added
RingAdd(q, elem) == [q EXCEPT !.avail = Append(@, elem), !.avail_idx = @ + 1]

\* what virtqueue_pop returns, and the ring it leaves
PopElem(q) == IF q.avail = <<>> THEN NULL ELSE Head(q.avail)
PopRing(q) ==
    IF q.avail = <<>> THEN q
    ELSE [q EXCEPT !.avail = Tail(@),
                   !.rewound = IF @ > 0 THEN @ - 1 ELSE 0]

\* virtqueue_push: the chain is returned to the guest with len bytes written
virtqueue_push(q, elem, len) ==
    [q EXCEPT !.used = Append(@, [id |-> elem.id, len |-> len])]

\* virtio_notify
virtio_notify(q) == [q EXCEPT !.notified = @ + 1]

\* virtqueue_unpop: the chain goes back to the head of the available ring,
\* nothing is added to the used ring
virtqueue_unpop(q, elem, len) ==
    [q EXCEPT !.avail = <<elem>> \o @, !.rewound = @ + 1]

\* virtqueue_rewind: whether num un-popped chains are there to be taken again,
\* and the ring once they are handed back to the device
RewindOk(q, num) == q.rewound >= num
RewindRing(q, num) == IF RewindOk(q, num) THEN [q EXCEPT !.rewound = @ - num] ELSE q

----------------------------------------------------------------------------
(* Program constants. *)

\* number of statistics slots: the tags 0 .. 6 of balloon_stat_names
VIRTIO_BALLOON_S_NR == 7
VIRTIO_BALLOON_PFN_SHIFT == 12
\* the status bit the driver sets when it is ready
VIRTIO_CONFIG_S_DRIVER_OK == 4
\* sizeof(VirtIOBalloonStat): a packed 16-bit tag and 64-bit value
StatSize == 2 + 8
\* sizeof(uint32_t): one page-frame number, and the free-page acknowledgement
PfnSize == 2 + 2

StatTags == 0 .. (VIRTIO_BALLOON_S_NR - 1)

----------------------------------------------------------------------------
VARIABLES
    features,             \* the negotiated feature bits, fixed for a run
    now,                  \* QEMU_CLOCK_VIRTUAL, in seconds
    ivq, dvq, svq, free_page_vq,   \* the four rings
    stats,                \* s->stats[]
    stats_vq_elem,        \* the held Stats chain, or NULL
    stats_vq_offset,      \* bytes of the held Stats chain that were parsed
    stats_last_update,    \* wall-clock second of the last Stats receipt
    stats_poll_interval,  \* int64_t, seconds; 0 when polling is disabled
    stats_timer,          \* the poll timer: exists, armed, expiry in ms
    free_page_vq_elem,    \* the held Free-Page chain, or NULL
    free_page_ready,      \* s->free_page_ready
    advised,              \* the reclaim-advisor calls of the last handler run
    fault,                \* "none", or why the device takes no more calls
    last,                 \* the last callback: its name, result and pops
    since_reset,          \* whether Reset ran with no Stats receipt taking a
                          \* chain since, and the id of the Stats chain that
                          \* Reset un-popped (0: none)
    madvised,             \* the qemu_madvise calls of the last handler run
    balloon_inhibited,    \* qemu_balloon_is_inhibited()
    kvm_missing_sync_mmu, \* kvm_enabled() && !kvm_has_sync_mmu()
    actual,               \* dev->actual, a 32-bit word
    num_pages,            \* dev->num_pages, a 32-bit word
    ram_size,             \* get_current_ram_size(), a 64-bit word
    balloon_change,       \* the BALLOON_CHANGE events of the last callback
    second_half,          \* the static flag of virtio_balloon_set_features
    balloon_opaque,       \* the device registered as the balloon handler
                          \* (0: none) and the hooks it registered
    negotiation           \* for each device: the feature callbacks it has had,
                          \* the registrations that succeeded, whether it
                          \* was cleaned up

vars == <<features, now, ivq, dvq, svq, free_page_vq, stats, stats_vq_elem,
          stats_vq_offset, stats_last_update, stats_poll_interval, stats_timer,
          free_page_vq_elem, free_page_ready, advised, fault, last,
          since_reset, madvised, balloon_inhibited, kvm_missing_sync_mmu,
          actual, num_pages, ram_size, balloon_change, second_half,
          balloon_opaque, negotiation>>

outputVars == <<ivq, dvq, advised, madvised>>
\* the host's reclaim switches
inhibitVars == <<balloon_inhibited, kvm_missing_sync_mmu>>
\* the config registers and the event they raise
configVars == <<actual, num_pages, ram_size, balloon_change>>
\* the balloon-handler registration
registerVars == <<second_half, balloon_opaque, negotiation>>
\* what the queue handlers, the timer and the hooks leave alone
machineVars == <<inhibitVars, configVars, registerVars>>
statsVars == <<svq, stats, stats_vq_elem, stats_vq_offset, stats_last_update>>
timerVars == <<stats_poll_interval, stats_timer>>
freePageVars == <<free_page_vq, free_page_vq_elem, free_page_ready>>

\* the device instances of the machine; the queues modelled are device 1's
Devices == {1, 2}
\* no balloon handler is registered
NoHandler == [opaque |-> 0, hooks |-> "none"]
\* a device that has had no feature callback
NotNegotiated == [calls |-> 0, registered |-> 0, refused |-> 0, cleaned |-> FALSE]

Called(op, ret, popped) == [op |-> op, ret |-> ret, popped |-> popped]

NoReset == [after |-> FALSE, unpopped |-> 0]

----------------------------------------------------------------------------
(* Feature tests. *)

balloon_stats_supported == "STATS_VQ" \in features
balloon_sg_supported == "SG" \in features
balloon_free_page_supported == "FREE_PAGE_VQ" \in features

----------------------------------------------------------------------------
(* The statistics snapshot and the poll timer. *)

reset_stats == [i \in StatTags |-> MinusOne64]

balloon_stats_enabled == I64Less(Zero64, stats_poll_interval)

NoTimer == [exists |-> FALSE, armed |-> FALSE, expire |-> Zero64]

\* timer_new_ms
timer_new_ms == [exists |-> TRUE, armed |-> FALSE, expire |-> Zero64]

\* the deadline is set and the timer left as it was, armed or not
balloon_stats_change_timer_unarmed(t, secs) ==
    [t EXCEPT !.expire = Add64(Mul64(W64(now), 1000), Mul64(secs, 1000))]

\* the timer is armed secs milliseconds from now
balloon_stats_change_timer_ms(t, secs) ==
    [t EXCEPT !.armed = TRUE, !.expire = Add64(Mul64(W64(now), 1000), secs)]

\* timer_mod(s->stats_timer, now_ms + secs * 1000)
balloon_stats_change_timer(t, secs) ==
    [t EXCEPT !.armed = TRUE,
              !.expire = Add64(Mul64(W64(now), 1000), Mul64(secs, 1000))]

\* the timer has run out
TimerExpired(t) ==
    /\ t.exists
    /\ t.armed
    /\ ~ I64Less(Mul64(W64(now), 1000), t.expire)

\* a parse that forgets how many bytes it consumed
ParseStatsOffsetLost(elem, offset, slots) == [stats |-> slots, offset |-> 0]

\* the records of a Stats chain, parsed from offset on: the slots they set
\* and the offset parsing stops at
RECURSIVE ParseStats(_, _, _)
ParseStats(elem, offset, slots) ==
    LET stat == IovToBuf(elem, offset, StatSize)
    IN  IF Len(stat) # StatSize THEN [stats |-> slots, offset |-> offset]
        ELSE LET tag == virtio_tswap16(SubSeq(stat, 1, 2))
                 val == virtio_tswap64(SubSeq(stat, 3, StatSize))
             IN  ParseStats(elem, offset + StatSize,
                            IF tag < VIRTIO_BALLOON_S_NR
                            THEN [slots EXCEPT ![tag] = val]
                            ELSE slots)

\* a held chain is overwritten by a newly popped one
DropHeldStats(q) == q

\* the ring after a held chain is handed back empty for a newly popped one
ReturnHeldStats(q) ==
    IF stats_vq_elem # NULL
    THEN virtio_notify(virtqueue_push(q, stats_vq_elem, 0))
    ELSE q

\* the snapshot is parsed into as it stands
StatsKept == stats

\* the snapshot a receipt parses into: reset_stats(s) has run
StatsBeforeParse == reset_stats

\* virtio_balloon_receive_stats on ring q; tv_ok: gettimeofday succeeded
virtio_balloon_receive_stats(q, tv_ok) ==
    LET elem == PopElem(q)
        parsed == ParseStats(elem, 0, StatsBeforeParse)
    IN  /\ IF elem = NULL
           THEN /\ svq' = q
                /\ UNCHANGED <<stats, stats_vq_elem, stats_vq_offset,
                               stats_last_update, since_reset>>
           ELSE /\ svq' = ReturnHeldStats(PopRing(q))
                /\ stats_vq_elem' = elem
                /\ stats' = parsed.stats
                /\ stats_vq_offset' = parsed.offset
                /\ stats_last_update' =
                       IF tv_ok THEN now + 1 ELSE stats_last_update
                /\ since_reset' = NoReset
        /\ IF balloon_stats_enabled
           THEN IF stats_timer.exists
                THEN /\ stats_timer' = balloon_stats_change_timer(
                                           stats_timer, stats_poll_interval)
                     /\ fault' = fault
                ELSE /\ stats_timer' = stats_timer
                     /\ fault' = "null timer"
           ELSE UNCHANGED <<stats_timer, fault>>

\* the Stats queue's handler, run on a guest signal
ReceiveStats ==
    /\ fault = "none"
    /\ \E tv_ok \in BOOLEAN : virtio_balloon_receive_stats(svq, tv_ok)
    /\ last' = Called("receive_stats", 0,
                      IF PopElem(svq) = NULL THEN <<>> ELSE <<PopElem(svq).id>>)
    /\ UNCHANGED <<features, machineVars, now, outputVars, stats_poll_interval,
                   freePageVars>>

\* a timer callback that also clears the snapshot
balloon_stats_poll_cb_clearing ==
    /\ fault = "none"
    /\ TimerExpired(stats_timer)
    /\ stats' = reset_stats
    /\ stats_timer' = balloon_stats_change_timer(stats_timer, stats_poll_interval)
    /\ last' = Called("poll_cb", 0, <<>>)
    /\ UNCHANGED <<features, machineVars, now, outputVars, svq, stats_vq_elem,
                   stats_vq_offset, stats_last_update, stats_poll_interval,
                   freePageVars, fault, since_reset>>

\* balloon_stats_poll_cb: the timer has fired and is no longer armed
balloon_stats_poll_cb ==
    /\ fault = "none"
    /\ TimerExpired(stats_timer)
    /\ IF stats_vq_elem = NULL \/ ~ balloon_stats_supported
       THEN /\ stats_timer' = balloon_stats_change_timer(
                                  stats_timer, stats_poll_interval)
            /\ UNCHANGED <<svq, stats_vq_elem>>
       ELSE /\ svq' = virtio_notify(
                          virtqueue_push(svq, stats_vq_elem, stats_vq_offset))
            /\ stats_vq_elem' = NULL
            /\ stats_timer' = [stats_timer EXCEPT !.armed = FALSE]
    /\ last' = Called("poll_cb", 0, <<>>)
    /\ UNCHANGED <<features, machineVars, now, outputVars, stats, stats_vq_offset,
                   stats_last_update, stats_poll_interval, freePageVars,
                   fault, since_reset>>

\* the timer is deleted and the interval kept
balloon_stats_destroy_timer_only ==
    IF balloon_stats_enabled
    THEN /\ stats_timer' = NoTimer
         /\ UNCHANGED stats_poll_interval
    ELSE UNCHANGED timerVars

\* balloon_stats_destroy_timer
balloon_stats_destroy_timer ==
    IF balloon_stats_enabled
    THEN /\ stats_timer' = NoTimer
         /\ stats_poll_interval' = Zero64
    ELSE UNCHANGED timerVars

\* only a negative interval is refused
PollValueNegative(value) == I64Less(value, Zero64)

\* the intervals balloon_stats_set_poll_interval refuses
PollValueInvalid(value) == I64Less(value, Zero64) \/ I64Less(UINT32_MAX, value)

\* balloon_stats_set_poll_interval with a value the visitor has read
balloon_stats_set_poll_interval(value) ==
    /\ fault = "none"
    /\ IF PollValueInvalid(value)
       THEN /\ last' = Called("set_poll_interval", -1, <<>>)
            /\ UNCHANGED <<timerVars, fault>>
       ELSE /\ last' = Called("set_poll_interval", 0, <<>>)
            /\ IF value = stats_poll_interval
               THEN UNCHANGED <<timerVars, fault>>
               ELSE IF value = Zero64
               THEN balloon_stats_destroy_timer /\ UNCHANGED fault
               ELSE IF balloon_stats_enabled
               THEN /\ stats_poll_interval' = value
                    /\ stats_timer' = balloon_stats_change_timer(stats_timer, value)
                    /\ UNCHANGED fault
               ELSE IF stats_timer.exists
               THEN /\ fault' = "assert"
                    /\ UNCHANGED timerVars
               ELSE /\ stats_poll_interval' = value
                    /\ stats_timer' = balloon_stats_change_timer(timer_new_ms, Zero64)
                    /\ UNCHANGED fault
    /\ UNCHANGED <<features, machineVars, now, outputVars, statsVars, freePageVars,
                   since_reset>>

----------------------------------------------------------------------------
(* The Free-Page queue and the hooks the migration code calls. *)

\* the loop of virtio_balloon_handle_free_pages from ring q on: the ring, the
\* handle and the ready flag it ends with, the chains it popped and the
\* ranges it passed to skip_free_pages_from_dirty_bitmap
RECURSIVE FreePagesLoop(_, _, _, _, _)
FreePagesLoop(q, held, ready, popped, skipped) ==
    LET elem == PopElem(q)
        keep == elem.out_num # 0 /\ held = NULL
        q1 == PopRing(q)
    IN  IF elem = NULL
        THEN [q |-> q, elem |-> held, ready |-> ready, popped |-> popped,
              skipped |-> skipped]
        ELSE FreePagesLoop(
                 IF elem.in_num # 0
                 THEN virtio_notify(virtqueue_push(q1, elem, PfnSize))
                 ELSE q1,
                 IF keep THEN elem ELSE held,
                 IF elem.out_num # 0 THEN TRUE ELSE ready,
                 Append(popped, elem.id),
                 IF elem.in_num # 0
                 THEN Append(skipped, [fn |-> "skip", addr |-> elem.in[1][1],
                                       size |-> elem.in[1][2], deflate |-> FALSE])
                 ELSE skipped)

FreePagesRun(q) == FreePagesLoop(q, free_page_vq_elem, free_page_ready, <<>>, <<>>)

\* virtio_balloon_handle_free_pages on ring q
virtio_balloon_handle_free_pages(q) ==
    /\ free_page_vq' = FreePagesRun(q).q
    /\ free_page_vq_elem' = FreePagesRun(q).elem
    /\ free_page_ready' = FreePagesRun(q).ready
    /\ advised' = FreePagesRun(q).skipped

\* the Free-Page queue's handler, run on a guest signal
HandleFreePages ==
    /\ fault = "none"
    /\ balloon_free_page_supported
    /\ virtio_balloon_handle_free_pages(free_page_vq)
    /\ last' = Called("handle_free_pages", 0, FreePagesRun(free_page_vq).popped)
    /\ UNCHANGED <<features, machineVars, now, ivq, dvq, madvised, statsVars,
                   timerVars, fault,
                   since_reset>>

\* virtio_balloon_free_page_support
virtio_balloon_free_page_support ==
    /\ fault = "none"
    /\ LET elem == PopElem(free_page_vq)
       IN  IF ~ balloon_free_page_supported
           THEN /\ last' = Called("free_page_support", 0, <<>>)
                /\ UNCHANGED <<free_page_vq, free_page_vq_elem>>
           ELSE IF free_page_vq_elem = NULL
           THEN /\ free_page_vq' = PopRing(free_page_vq)
                /\ free_page_vq_elem' = elem
                /\ last' = Called("free_page_support",
                                  IF elem = NULL \/ elem.out_num = 0 THEN 0 ELSE 1,
                                  IF elem = NULL THEN <<>> ELSE <<elem.id>>)
           ELSE /\ last' = Called("free_page_support", 1, <<>>)
                /\ UNCHANGED <<free_page_vq, free_page_vq_elem>>
    /\ UNCHANGED <<features, machineVars, now, outputVars, statsVars, timerVars,
                   free_page_ready, fault, since_reset>>

\* the ready flag is cleared only by a report that has a chain to push
ReportReadyIfPushed ==
    IF \/ free_page_vq_elem # NULL
       \/ PopElem(free_page_vq) # NULL /\ PopElem(free_page_vq).out_num # 0
    THEN FALSE
    ELSE free_page_ready

\* the ready flag once virtio_balloon_free_page_report is past its feature test
ReportReady == FALSE

\* virtio_balloon_free_page_report
virtio_balloon_free_page_report ==
    /\ fault = "none"
    /\ LET elem == PopElem(free_page_vq)
           pushed(q, e) == virtio_notify(virtqueue_push(q, e, PfnSize))
       IN  IF ~ balloon_free_page_supported
           THEN /\ last' = Called("free_page_report", -1, <<>>)
                /\ UNCHANGED freePageVars
           ELSE /\ free_page_ready' = ReportReady
                /\ IF free_page_vq_elem # NULL
                   THEN /\ free_page_vq' = pushed(free_page_vq, free_page_vq_elem)
                        /\ free_page_vq_elem' = NULL
                        /\ last' = Called("free_page_report", 0, <<>>)
                   ELSE IF elem = NULL \/ elem.out_num = 0
                   THEN /\ free_page_vq' = PopRing(free_page_vq)
                        /\ free_page_vq_elem' = elem
                        /\ last' = Called("free_page_report", -1,
                                          IF elem = NULL THEN <<>> ELSE <<elem.id>>)
                   ELSE /\ free_page_vq' = pushed(PopRing(free_page_vq), elem)
                        /\ free_page_vq_elem' = NULL
                        /\ last' = Called("free_page_report", 0, <<elem.id>>)
    /\ UNCHANGED <<features, machineVars, now, outputVars, statsVars, timerVars, fault,
                   since_reset>>

\* virtio_balloon_free_page_ready
virtio_balloon_free_page_ready == free_page_ready

----------------------------------------------------------------------------
(* Device reset and the status callback. *)

\* Reset frees a held chain without putting it back on its ring
ResetDrop(q, elem) == q

\* Reset puts a held chain back on its ring, no byte of it consumed
ResetUnpop(q, elem) == virtqueue_unpop(q, elem, 0)

\* Reset leaves the freed Stats chain in the handle
ResetStatsElemStale == stats_vq_elem

\* Reset clears the Stats handle
ResetStatsElem == NULL

\* virtio_balloon_device_reset
virtio_balloon_device_reset ==
    /\ fault = "none"
    /\ IF stats_vq_elem # NULL
       THEN /\ svq' = ResetUnpop(svq, stats_vq_elem)
            /\ stats_vq_elem' = ResetStatsElem
            /\ since_reset' = [after |-> TRUE, unpopped |-> stats_vq_elem.id]
       ELSE /\ since_reset' = [since_reset EXCEPT !.after = TRUE]
            /\ UNCHANGED <<svq, stats_vq_elem>>
    /\ IF balloon_free_page_supported /\ free_page_vq_elem # NULL
       THEN /\ free_page_vq' = ResetUnpop(free_page_vq, free_page_vq_elem)
            /\ free_page_vq_elem' = NULL
       ELSE UNCHANGED <<free_page_vq, free_page_vq_elem>>
    /\ last' = Called("reset", 0, <<>>)
    /\ UNCHANGED <<features, machineVars, now, outputVars, stats, stats_vq_offset,
                   stats_last_update, timerVars, free_page_ready, fault>>

\* whether the status byte has the driver-ready bit
DriverOk(status) == (status \div VIRTIO_CONFIG_S_DRIVER_OK) % 2 = 1

\* virtio_balloon_set_status, with the transport's vm_running flag
virtio_balloon_set_status(status, vm_running) ==
    LET go == vm_running /\ DriverOk(status)
        stats_again == go /\ stats_vq_elem = NULL /\ RewindOk(svq, 1)
        pages_again == /\ go
                       /\ balloon_free_page_supported
                       /\ free_page_vq_elem = NULL
                       /\ RewindOk(free_page_vq, 1)
        sq == RewindRing(svq, 1)
        fq == RewindRing(free_page_vq, 1)
    IN  /\ fault = "none"
        /\ IF stats_again
           THEN \E tv_ok \in BOOLEAN : virtio_balloon_receive_stats(sq, tv_ok)
           ELSE UNCHANGED <<statsVars, stats_timer, fault, since_reset>>
        /\ IF pages_again
           THEN virtio_balloon_handle_free_pages(fq)
           ELSE UNCHANGED <<freePageVars, advised>>
        /\ last' = Called("set_status",
                          (IF stats_again THEN 1 ELSE 0) + (IF pages_again THEN 2 ELSE 0),
                          (IF stats_again THEN <<PopElem(sq).id>> ELSE <<>>)
                          \o (IF pages_again THEN FreePagesRun(fq).popped ELSE <<>>))
        /\ UNCHANGED <<features, machineVars, now, ivq, dvq, madvised,
                       stats_poll_interval>>

\* virtio_balloon_post_load_device: the device state has been restored
virtio_balloon_post_load_device ==
    /\ fault = "none"
    /\ IF balloon_stats_enabled
       THEN IF stats_timer.exists
            THEN /\ stats_timer' = balloon_stats_change_timer(
                                       stats_timer, stats_poll_interval)
                 /\ fault' = fault
            ELSE /\ stats_timer' = stats_timer
                 /\ fault' = "null timer"
       ELSE UNCHANGED <<stats_timer, fault>>
    /\ last' = Called("post_load", 0, <<>>)
    /\ UNCHANGED <<features, machineVars, now, outputVars, statsVars,
                   stats_poll_interval, freePageVars, since_reset>>

\* qemu_remove_balloon_handler for device d
qemu_remove_balloon_handler(d) ==
    IF balloon_opaque.opaque = d THEN NoHandler ELSE balloon_opaque

\* virtio_balloon_device_unrealize of device 1: the device is gone afterwards
virtio_balloon_device_unrealize ==
    /\ fault = "none"
    /\ balloon_stats_destroy_timer
    /\ balloon_opaque' = qemu_remove_balloon_handler(1)
    /\ negotiation' = [negotiation EXCEPT ![1].cleaned = TRUE]
    /\ fault' = "unrealized"
    /\ last' = Called("unrealize", 0, <<>>)
    /\ UNCHANGED <<features, inhibitVars, configVars, second_half, now,
                   outputVars, statsVars, freePageVars, since_reset>>

----------------------------------------------------------------------------
(* The Inflate and Deflate queues. *)

\* BALLOON_PAGE_SIZE
BALLOON_PAGE_SIZE == 2^VIRTIO_BALLOON_PFN_SHIFT

\* (ram_addr_t) p for an int p: the 32-bit word sign-extended to 64 bits
IntToRamAddr(p) ==
    IF p[1] >= Limb \div 2 THEN <<Limb - 1, Limb - 1, p[1], p[2]>>
    ELSE <<0, 0, p[1], p[2]>>

\* one balloon_pages(addr, size, deflate) call
balloon_pages(addr, size, deflate) ==
    [fn |-> "balloon_pages", addr |-> addr, size |-> size, deflate |-> deflate]

\* guest RAM as memory_region_find sees it: one RAM region from address 0
RamBytes == 2^30
InRam(addr) == addr[1] = 0 /\ addr[2] = 0 /\ addr[3] < RamBytes \div Limb

\* the while loop of balloon_pages: a qemu_madvise call for each section of
\* the range found in RAM, until the range is done or an address is bad
RECURSIVE MadviseLoop(_, _, _)
MadviseLoop(addr, size, deflate) ==
    IF size = 0 \/ ~ InRam(addr) THEN <<>>
    ELSE LET left == RamBytes - (addr[3] * Limb + addr[4])
             len == IF size < left THEN size ELSE left
         IN  <<[fn |-> "qemu_madvise", addr |-> addr, len |-> len,
                advice |-> IF deflate THEN "WILLNEED" ELSE "DONTNEED"]>>
             \o MadviseLoop(Add64(addr, W64(len)), size - len, deflate)

\* balloon_pages advises the host whatever the reclaim switches say
balloon_pages_uninhibited(call) ==
    MadviseLoop(call.addr, call.size, call.deflate)

\* the body of balloon_pages: the qemu_madvise calls one call makes
balloon_pages_body(call) ==
    IF balloon_inhibited \/ kvm_missing_sync_mmu THEN <<>>
    ELSE MadviseLoop(call.addr, call.size, call.deflate)

\* the qemu_madvise calls of a handler run, from its i-th balloon_pages call on
RECURSIVE MadviseAll(_, _)
MadviseAll(calls, i) ==
    IF i > Len(calls) THEN <<>>
    ELSE balloon_pages_body(calls[i]) \o MadviseAll(calls, i + 1)

\* SG mode with the queue forgotten: every call is an inflate call
RECURSIVE SgPagesNoFlag(_, _, _)
SgPagesNoFlag(elem, i, deflate) ==
    IF i > elem.in_num THEN <<>>
    ELSE <<balloon_pages(elem.in[i][1], elem.in[i][2], FALSE)>>
         \o SgPagesNoFlag(elem, i + 1, deflate)

\* SG mode: one call for each input buffer of the chain, from buffer i on
RECURSIVE SgPages(_, _, _)
SgPages(elem, i, deflate) ==
    IF i > elem.in_num THEN <<>>
    ELSE <<balloon_pages(elem.in[i][1], elem.in[i][2], deflate)>>
         \o SgPages(elem, i + 1, deflate)

\* legacy mode: one call for each whole page-frame number of the output
\* payload from offset on, and the offset the loop stops at
RECURSIVE PfnPages(_, _, _)
PfnPages(elem, offset, deflate) ==
    LET pfn == IovToBuf(elem, offset, PfnSize)
        p == virtio_ldl_p(pfn)
        addr == Shl64(IntToRamAddr(p), VIRTIO_BALLOON_PFN_SHIFT)
        rest == PfnPages(elem, offset + PfnSize, deflate)
    IN  IF Len(pfn) # PfnSize THEN [calls |-> <<>>, offset |-> offset]
        ELSE [calls |-> <<balloon_pages(addr, BALLOON_PAGE_SIZE, deflate)>>
                        \o rest.calls,
              offset |-> rest.offset]

\* the loop of virtio_balloon_handle_output from ring q on: the ring it
\* leaves, the chains it popped and the balloon_pages calls it made
RECURSIVE OutputLoop(_, _, _, _)
OutputLoop(q, deflate, popped, calls) ==
    LET elem == PopElem(q)
        legacy == PfnPages(elem, 0, deflate)
        offset == IF balloon_sg_supported THEN 0 ELSE legacy.offset
        made == IF balloon_sg_supported THEN SgPages(elem, 1, deflate)
                ELSE legacy.calls
    IN  IF elem = NULL
        THEN [q |-> q, popped |-> popped, calls |-> calls]
        ELSE OutputLoop(virtio_notify(virtqueue_push(PopRing(q), elem, offset)),
                        deflate, Append(popped, elem.id), calls \o made)

\* virtio_balloon_handle_output on the Inflate ring
HandleInflate ==
    LET run == OutputLoop(ivq, FALSE, <<>>, <<>>)
    IN  /\ fault = "none"
        /\ ivq' = run.q
        /\ advised' = run.calls
        /\ madvised' = MadviseAll(run.calls, 1)
        /\ last' = Called("handle_output", 0, run.popped)
        /\ UNCHANGED <<features, machineVars, now, dvq, statsVars, timerVars, freePageVars,
                       fault, since_reset>>

\* virtio_balloon_handle_output on the Deflate ring
HandleDeflate ==
    LET run == OutputLoop(dvq, TRUE, <<>>, <<>>)
    IN  /\ fault = "none"
        /\ dvq' = run.q
        /\ advised' = run.calls
        /\ madvised' = MadviseAll(run.calls, 1)
        /\ last' = Called("handle_output", 1, run.popped)
        /\ UNCHANGED <<features, machineVars, now, ivq, statsVars, timerVars, freePageVars,
                       fault, since_reset>>

----------------------------------------------------------------------------
(* Feature negotiation and the balloon-handler registration. *)

\* qemu_add_balloon_handler for device d: refused (-1) while another device
\* is the handler; replaces, when it has a handler of d itself, is either
\* refused or taken in its place
qemu_add_balloon_handler(d, replaces) ==
    IF balloon_opaque.opaque = 0 THEN 0
    ELSE IF balloon_opaque.opaque = d /\ replaces THEN 0
    ELSE -1

\* virtio_balloon_set_features of device d with the accepted features f
virtio_balloon_set_features(d, f, replaces) ==
    LET ret == qemu_add_balloon_handler(d, replaces)
        hooks == IF "FREE_PAGE_VQ" \in f THEN "free_page" ELSE "plain"
        called == [negotiation[d] EXCEPT !.calls = @ + 1]
    IN  /\ fault = "none"
        /\ ~ negotiation[d].cleaned
        /\ negotiation[d].calls < MaxFeatureCalls
        /\ IF ~ second_half /\ ret < 0
           THEN \* virtio_cleanup(vdev); return
                /\ negotiation' =
                       [negotiation EXCEPT ![d] =
                           [called EXCEPT !.refused = @ + 1, !.cleaned = TRUE]]
                /\ UNCHANGED <<second_half, balloon_opaque>>
           ELSE IF ~ second_half
           THEN /\ balloon_opaque' = [opaque |-> d, hooks |-> hooks]
                /\ negotiation' =
                       [negotiation EXCEPT ![d] =
                           [called EXCEPT !.registered = @ + 1]]
                /\ second_half' = TRUE
           ELSE /\ negotiation' = [negotiation EXCEPT ![d] = called]
                /\ second_half' = FALSE
                /\ UNCHANGED balloon_opaque
        /\ UNCHANGED <<features, inhibitVars, configVars, now, outputVars,
                       statsVars, timerVars, freePageVars, fault, last,
                       since_reset>>

----------------------------------------------------------------------------
(* The config registers. *)

\* get_current_ram_size: ram_size and the realized DIMMs, kept as their sum
get_current_ram_size == ram_size

\* le32_to_cpu of four bytes of the config space
le32_to_cpu(b) == <<b[3] + (Byte * b[4]), b[1] + (Byte * b[2])>>

\* struct virtio_balloon_config: num_pages at offset 0, actual at offset 4
ConfigNumPages(config_data) == SubSeq(config_data, 1, 4)
ConfigActual(config_data) == SubSeq(config_data, 5, 8)

\* every config write raises the event
BalloonChangeAlways(oldactual, newactual) == TRUE

\* whether a config write raises the event: dev->actual != oldactual
BalloonChangeDue(oldactual, newactual) == newactual # oldactual

\* virtio_balloon_set_config on the eight bytes the guest wrote
virtio_balloon_set_config(config_data) ==
    LET oldactual == actual
        vm_ram_size == get_current_ram_size
        newactual == le32_to_cpu(ConfigActual(config_data))
    IN  /\ fault = "none"
        /\ Len(config_data) = 8
        /\ actual' = newactual
        /\ balloon_change' =
               IF BalloonChangeDue(oldactual, newactual)
               THEN <<Sub64(vm_ram_size,
                            Shl64(U32To64(newactual), VIRTIO_BALLOON_PFN_SHIFT))>>
               ELSE <<>>
        /\ last' = Called("set_config", 0, <<>>)
        /\ UNCHANGED <<features, inhibitVars, registerVars, num_pages, ram_size,
                       now, outputVars, statsVars, timerVars, freePageVars,
                       fault, since_reset>>

\* virtio_balloon_get_config: the eight bytes the guest reads
virtio_balloon_get_config == LE32(num_pages) \o LE32(actual)

\* virtio_balloon_to_target; ret 1: the config interrupt was raised
virtio_balloon_to_target(target) ==
    LET vm_ram_size == get_current_ram_size
        capped == IF U64Less(vm_ram_size, target) THEN vm_ram_size ELSE target
    IN  /\ fault = "none"
        /\ num_pages' =
               IF capped # Zero64
               THEN U64To32(Shr64(Sub64(vm_ram_size, capped),
                                  VIRTIO_BALLOON_PFN_SHIFT))
               ELSE num_pages
        /\ balloon_change' = <<>>
        /\ last' = Called("to_target", IF capped # Zero64 THEN 1 ELSE 0, <<>>)
        /\ UNCHANGED <<features, inhibitVars, registerVars, actual, ram_size,
                       now, outputVars, statsVars, timerVars, freePageVars,
                       fault, since_reset>>

----------------------------------------------------------------------------
(* The guest driver and the clock. *)

\* one statistics record on the wire
StatRecord(tag, val) == LE16(tag) \o LE64(val)

\* the values the guest reports
FreeMemory == W64(12345)
HugeValue == <<Limb \div 2, 0, 0, 1>>

\* Stats payloads of the lifecycle specification: none, or free-memory alone
StatsPayloads == {<<>>, StatRecord(4, FreeMemory)}

\* Stats payloads of the parsing specification: up to two records with known
\* and unknown tags, whole or cut short by three bytes
StatsValues == {FreeMemory, HugeValue}
StatsRecords ==
    {StatRecord(4, v) : v \in StatsValues}
    \cup {StatRecord(VIRTIO_BALLOON_S_NR - 1, FreeMemory),
          StatRecord(VIRTIO_BALLOON_S_NR, FreeMemory),
          StatRecord(Limb - 4, HugeValue)}
WholeStatsPayloads ==
    {<<>>} \cup StatsRecords \cup {a \o b : a \in StatsRecords, b \in StatsRecords}
RichStatsPayloads ==
    WholeStatsPayloads \cup {SubSeq(a \o a, 1, 2 * StatSize - 3) : a \in StatsRecords}

\* the page-frame numbers the guest balloons, as 32-bit words
Pfns == {<<0, 1>>, <<0, Limb - 1>>, <<Limb \div 2, 0>>, <<Limb - 1, Limb - 1>>}
WholePfnPayloads ==
    {<<>>} \cup {LE32(a) : a \in Pfns} \cup {LE32(a) \o LE32(b) : a \in Pfns, b \in Pfns}
PfnPayloads ==
    WholePfnPayloads \cup {w \o <<1, 0>> : w \in {<<>>} \cup {LE32(a) : a \in Pfns}}

\* the (address, length) ranges the guest passes in input buffers
\* in RAM, beyond RAM, and running over the end of RAM
Ranges == {<<W64(BALLOON_PAGE_SIZE), BALLOON_PAGE_SIZE>>,
           <<<<0, 1, 0, 0>>, 2 * BALLOON_PAGE_SIZE>>,
           <<W64(RamBytes - BALLOON_PAGE_SIZE), 2 * BALLOON_PAGE_SIZE>>}
RangeLists == {<<>>} \cup {<<r>> : r \in Ranges}
                     \cup {<<a, b>> : a \in Ranges, b \in Ranges}

GuestAddStats(payloads, max) ==
    /\ fault = "none"
    /\ svq.avail_idx + free_page_vq.avail_idx < max
    /\ \E payload \in payloads :
           svq' = RingAdd(svq, Chain(svq.avail_idx + 1, 1, payload, <<>>))
    /\ UNCHANGED <<features, machineVars, now, outputVars, stats, stats_vq_elem,
                   stats_vq_offset, stats_last_update, timerVars, freePageVars,
                   fault, last, since_reset>>

\* a Free-Page chain is output-only (the ready signal) or input-only (a range)
GuestAddFreePage ==
    /\ fault = "none"
    /\ balloon_free_page_supported
    /\ svq.avail_idx + free_page_vq.avail_idx < MaxChains
    /\ \E in \in {<<>>, <<<<W64(BALLOON_PAGE_SIZE), BALLOON_PAGE_SIZE>>>>} :
           free_page_vq' =
               RingAdd(free_page_vq,
                       Chain(free_page_vq.avail_idx + 1,
                             IF in = <<>> THEN 1 ELSE 0, <<>>, in))
    /\ UNCHANGED <<features, machineVars, now, outputVars, statsVars, timerVars,
                   free_page_vq_elem, free_page_ready, fault, last,
                   since_reset>>

\* the output payloads of an SG-mode chain: none, or one the device ignores
SgPayloads == {<<>>, LE32(<<0, 1>>)}

\* an Inflate/Deflate chain: page-frame numbers in legacy mode, ranges in SG mode
OutputChain(q, payload, in) ==
    Chain(q.avail_idx + 1, IF payload = <<>> THEN 0 ELSE 1, payload, in)

GuestAddInflate ==
    /\ fault = "none"
    /\ ivq.avail_idx + dvq.avail_idx < MaxOutputChains
    /\ \E payload \in PfnPayloads, in \in RangeLists :
           /\ payload # <<>> \/ in # <<>>
           /\ (balloon_sg_supported => payload \in SgPayloads)
           /\ (~ balloon_sg_supported => in = <<>>)
           /\ ivq' = RingAdd(ivq, OutputChain(ivq, payload, in))
    /\ UNCHANGED <<features, machineVars, now, dvq, advised, madvised, statsVars,
                   timerVars,
                   freePageVars, fault, last, since_reset>>

GuestAddDeflate ==
    /\ fault = "none"
    /\ ivq.avail_idx + dvq.avail_idx < MaxOutputChains
    /\ \E payload \in PfnPayloads, in \in RangeLists :
           /\ payload # <<>> \/ in # <<>>
           /\ (balloon_sg_supported => payload \in SgPayloads)
           /\ (~ balloon_sg_supported => in = <<>>)
           /\ dvq' = RingAdd(dvq, OutputChain(dvq, payload, in))
    /\ UNCHANGED <<features, machineVars, now, ivq, advised, madvised, statsVars,
                   timerVars,
                   freePageVars, fault, last, since_reset>>

\* qemu_balloon_inhibit: the host switches reclamation off or on
qemu_balloon_inhibit(state) ==
    /\ fault = "none"
    /\ balloon_inhibited' = state
    /\ UNCHANGED <<features, kvm_missing_sync_mmu, configVars, registerVars, now,
                   outputVars, statsVars, timerVars, freePageVars, fault, last,
                   since_reset>>

QemuBalloonInhibit == \E state \in BOOLEAN : qemu_balloon_inhibit(state)

\* the RAM a machine starts with
RamSizes == {W64(1000000), W64(RamBytes)}

\* the 32-bit words the guest writes to the config space
ConfigWords == {<<0, 0>>, <<0, 80>>, <<0, 100>>, <<Limb - 1, Limb - 1>>}

GuestWriteConfig ==
    \E np \in ConfigWords, a \in ConfigWords :
        virtio_balloon_set_config(LE32(np) \o LE32(a))

\* the balloon targets the monitor asks for
Targets == {Zero64, W64(500000), W64(RamBytes)}

BalloonToTarget == \E target \in Targets : virtio_balloon_to_target(target)

\* a DIMM is plugged: the machine's RAM grows
DimmBytes == 2^28
PlugDimm ==
    /\ fault = "none"
    /\ ram_size \in RamSizes
    /\ ram_size' = Add64(ram_size, W64(DimmBytes))
    /\ UNCHANGED <<features, inhibitVars, registerVars, actual, num_pages,
                   balloon_change, now, outputVars, statsVars, timerVars,
                   freePageVars, fault, last, since_reset>>

\* the transport passes a device the features the guest accepted
SetFeatures ==
    \E d \in Devices, replaces \in BOOLEAN :
        virtio_balloon_set_features(d, features, replaces)

\* virtual time runs on to the deadline of the armed timer; the clock is read
\* from that instant on, so the deadline becomes the present reading
TimerComesDue ==
    /\ fault = "none"
    /\ stats_timer.exists
    /\ stats_timer.armed
    /\ ~ TimerExpired(stats_timer)
    /\ stats_timer' = [stats_timer EXCEPT !.expire = Mul64(W64(now), 1000)]
    /\ UNCHANGED <<features, machineVars, now, outputVars, statsVars,
                   stats_poll_interval, freePageVars, fault, last, since_reset>>

Tick ==
    /\ fault = "none"
    /\ now < MaxNow
    /\ now' = now + 1
    /\ UNCHANGED <<features, machineVars, outputVars, statsVars, timerVars, freePageVars,
                   fault, last, since_reset>>

----------------------------------------------------------------------------
(* Specifications. *)

\* the device after realize and feature negotiation
Init ==
    /\ now = 0
    /\ ivq = EmptyRing
    /\ dvq = EmptyRing
    /\ svq = EmptyRing
    /\ free_page_vq = EmptyRing
    /\ stats = reset_stats
    /\ stats_vq_elem = NULL
    /\ stats_vq_offset = 0
    /\ stats_last_update = 0
    /\ stats_poll_interval = Zero64
    /\ stats_timer = NoTimer
    /\ free_page_vq_elem = NULL
    /\ free_page_ready = FALSE
    /\ advised = <<>>
    /\ fault = "none"
    /\ last = Called("realize", 0, <<>>)
    /\ since_reset = NoReset
    /\ madvised = <<>>
    /\ balloon_inhibited = FALSE
    /\ actual = <<0, 0>>
    /\ num_pages = <<0, 0>>
    /\ balloon_change = <<>>
    /\ second_half = FALSE
    /\ balloon_opaque = NoHandler
    /\ negotiation = [d \in Devices |-> NotNegotiated]

\* the host of the queue specifications: KVM with a synchronous MMU, and as
\* much RAM as the memory map has
DefaultHost == kvm_missing_sync_mmu = FALSE /\ ram_size = W64(RamBytes)

\* the status bytes the transport passes: without and with the driver-ready bit
StatusValues == {3, 15}

SetStatus ==
    \E status \in StatusValues, vm_running \in BOOLEAN :
        virtio_balloon_set_status(status, vm_running)

\* The device's life on both buffered channels: the Stats queue with its
\* poll timer, the Free-Page queue with the migration hooks, reset and the
\* status callback.  The clock stands still: a timer fires when it was armed
\* with no delay.
LifeInit ==
    /\ Init
    /\ features \in SUBSET {"STATS_VQ", "FREE_PAGE_VQ"}
    /\ DefaultHost

SetPollInterval ==
    \E value \in {Zero64, W64(1)} : balloon_stats_set_poll_interval(value)

Next ==
    \/ GuestAddStats({StatRecord(4, FreeMemory)}, MaxChains)
    \/ ReceiveStats
    \/ balloon_stats_poll_cb
    \/ SetPollInterval
    \/ GuestAddFreePage
    \/ HandleFreePages
    \/ virtio_balloon_free_page_support
    \/ virtio_balloon_free_page_report
    \/ virtio_balloon_device_reset
    \/ SetStatus

Spec == LifeInit /\ [][Next]_vars

\* The Stats queue and the poll timer under a running clock, with poll
\* intervals over the whole range of the property's int64_t.
PollInit ==
    /\ Init
    /\ features \in SUBSET {"STATS_VQ"}
    /\ DefaultHost

PollValues ==
    {MinusOne64, <<Limb \div 2, 0, 0, 0>>, Zero64, W64(1), W64(2), UINT32_MAX,
     Add64(UINT32_MAX, W64(1)), <<Limb \div 2 - 1, Limb - 1, Limb - 1, Limb - 1>>}

SetAnyPollInterval ==
    \E value \in PollValues : balloon_stats_set_poll_interval(value)

PollNext ==
    \/ GuestAddStats(StatsPayloads, MaxPollChains)
    \/ ReceiveStats
    \/ balloon_stats_poll_cb
    \/ SetAnyPollInterval
    \/ virtio_balloon_device_reset
    \/ SetStatus
    \/ Tick

PollSpec == PollInit /\ [][PollNext]_vars

\* The poll timer over the device's whole life: the polling specification's
\* steps, restore and unrealize, with Stats payloads of a whole record and
\* of a record and a half.
TimerPayloads ==
    StatsPayloads
    \cup {StatRecord(4, FreeMemory) \o SubSeq(StatRecord(4, FreeMemory), 1, 5)}

TimerNext ==
    \/ GuestAddStats(TimerPayloads, MaxTimerChains)
    \/ ReceiveStats
    \/ balloon_stats_poll_cb
    \/ SetAnyPollInterval
    \/ virtio_balloon_device_reset
    \/ SetStatus
    \/ virtio_balloon_post_load_device
    \/ virtio_balloon_device_unrealize
    \/ Tick

TimerSpec == PollInit /\ [][TimerNext]_vars

\* The poll timer when armed timers fire: time runs on to each deadline, and
\* a timer that is due again and again has its callback run.
LiveNext ==
    \/ GuestAddStats(TimerPayloads, MaxTimerChains)
    \/ ReceiveStats
    \/ balloon_stats_poll_cb
    \/ SetAnyPollInterval
    \/ virtio_balloon_device_reset
    \/ SetStatus
    \/ virtio_balloon_post_load_device
    \/ virtio_balloon_device_unrealize
    \/ TimerComesDue

LiveSpec ==
    /\ PollInit
    /\ [][LiveNext]_vars
    /\ WF_vars(TimerComesDue)
    /\ SF_vars(balloon_stats_poll_cb)

\* Statistics parsing over payloads of whole and cut records.
ParseInit == Init /\ features = {"STATS_VQ"} /\ DefaultHost

ParseNext ==
    \/ GuestAddStats(RichStatsPayloads, MaxParseChains)
    \/ ReceiveStats

ParseSpec == ParseInit /\ [][ParseNext]_vars

\* The Inflate and Deflate queues in legacy and in SG mode.
OutputInit ==
    /\ Init
    /\ features \in SUBSET {"SG"}
    /\ kvm_missing_sync_mmu \in BOOLEAN
    /\ ram_size = W64(RamBytes)

OutputNext ==
    \/ GuestAddInflate
    \/ GuestAddDeflate
    \/ HandleInflate
    \/ HandleDeflate
    \/ QemuBalloonInhibit

OutputSpec == OutputInit /\ [][OutputNext]_vars

\* The config registers: guest writes of actual, balloon targets from the
\* monitor and memory hotplug.
ConfigInit ==
    /\ Init
    /\ features = {}
    /\ kvm_missing_sync_mmu = FALSE
    /\ ram_size \in RamSizes

ConfigNext ==
    \/ GuestWriteConfig
    \/ BalloonToTarget
    \/ PlugDimm

ConfigSpec == ConfigInit /\ [][ConfigNext]_vars

\* Feature negotiation of two balloon devices, with guest resets of the
\* first between its rounds.
NegotiateInit ==
    /\ Init
    /\ features \in SUBSET {"STATS_VQ", "FREE_PAGE_VQ"}
    /\ DefaultHost

NegotiateNext ==
    \/ SetFeatures
    \/ virtio_balloon_device_reset

NegotiateSpec == NegotiateInit /\ [][NegotiateNext]_vars

----------------------------------------------------------------------------
(* Properties. *)

\* the ids of the chains on a used ring
UsedIds(q) == {q.used[i].id : i \in 1 .. Len(q.used)}

\* the last entry of a used ring
LastUsed(q) == q.used[Len(q.used)]

\* C1: when the Free-Page handler returns, every chain it popped is the held
\* PendingBuffer or has been pushed back to the guest
C1_NoFreePageBufferLost ==
    last.op = "handle_free_pages" =>
        \A i \in 1 .. Len(last.popped) :
            \/ last.popped[i] = free_page_vq_elem.id
            \/ last.popped[i] \in UsedIds(free_page_vq)

\* C2: a held handle is never overwritten: the Stats handle changes from one
\* chain to another only with the old chain pushed back with length 0 and
\* the guest notified, and the Free-Page handle never changes from one chain
\* to another
C2_HeldNeverOverwritten ==
    [][/\ (stats_vq_elem # NULL /\ stats_vq_elem' # NULL
              /\ stats_vq_elem' # stats_vq_elem)
          => /\ Len(svq'.used) = Len(svq.used) + 1
             /\ LastUsed(svq') = [id |-> stats_vq_elem.id, len |-> 0]
             /\ svq'.notified = svq.notified + 1
       /\ (free_page_vq_elem # NULL /\ free_page_vq_elem' # NULL)
          => free_page_vq_elem' = free_page_vq_elem]_vars

\* C2's case: a second Stats chain was accepted while the first was held,
\* and the first is on the used ring with length 0
C2_Witness ==
    /\ last.op = "receive_stats"
    /\ stats_vq_elem.id = 2
    /\ svq.used = <<[id |-> 1, len |-> 0]>>
    /\ svq.notified = 1

\* some chain popped in this step carried output buffers
PoppedOutputChain ==
    \E i \in 1 .. Len(free_page_vq.avail) :
        /\ free_page_vq.avail[i].out_num # 0
        /\ \E j \in 1 .. Len(last'.popped) :
               last'.popped[j] = free_page_vq.avail[i].id

FreePageHandlerRan ==
    \/ HandleFreePages
    \/ \E status \in StatusValues, vm_running \in BOOLEAN :
           virtio_balloon_set_status(status, vm_running)

Requeued(q, elem) ==
    [q EXCEPT !.avail = <<elem>> \o @, !.rewound = @ + 1]

\* C4: after Reset no Stats buffer is held, nor a Free-Page buffer when
\* FREE_PAGE_VQ is negotiated, and each buffer held before is back on its own
\* ring as one rewound element with nothing pushed to the used ring
C4_ResetRequeues ==
    [][virtio_balloon_device_reset =>
          /\ stats_vq_elem' = NULL
          /\ svq' = IF stats_vq_elem # NULL THEN Requeued(svq, stats_vq_elem)
                    ELSE svq
          /\ balloon_free_page_supported =>
                 /\ free_page_vq_elem' = NULL
                 /\ free_page_vq' =
                        IF free_page_vq_elem # NULL
                        THEN Requeued(free_page_vq, free_page_vq_elem)
                        ELSE free_page_vq]_vars

\* C4's case: Reset ran with a buffer held on each channel
C4_Witness ==
    /\ last.op = "reset"
    /\ stats_vq_elem = NULL
    /\ free_page_vq_elem = NULL
    /\ svq.rewound = 1
    /\ free_page_vq.rewound = 1
    /\ svq.avail # <<>>
    /\ free_page_vq.avail # <<>>

\* C5: a driver-ready status with the VM running re-acquires a rewound
\* element as the held buffer on each channel that holds none; without the
\* driver-ready bit, with the VM stopped or with a buffer held, the channel's
\* ring and handle are left alone
C5_ResumeReacquires ==
    [][\A status \in StatusValues, vm_running \in BOOLEAN :
          virtio_balloon_set_status(status, vm_running) =>
              LET go == vm_running /\ status = 15
              IN  /\ (go /\ stats_vq_elem = NULL /\ svq.rewound >= 1)
                     => stats_vq_elem' = Head(svq.avail)
                  /\ (go /\ balloon_free_page_supported
                         /\ free_page_vq_elem = NULL /\ free_page_vq.rewound >= 1)
                     => free_page_vq_elem' = Head(free_page_vq.avail)
                  /\ (~ go \/ stats_vq_elem # NULL)
                     => (svq' = svq /\ stats_vq_elem' = stats_vq_elem)
                  /\ (~ go \/ free_page_vq_elem # NULL)
                     => (free_page_vq' = free_page_vq
                         /\ free_page_vq_elem' = free_page_vq_elem)]_vars

\* interval seconds in milliseconds, written out for the intervals set here
PollMs(secs) ==
    CASE secs = W64(1) -> W64(1000)
      [] secs = W64(2) -> W64(2000)
      [] secs = UINT32_MAX -> <<0, 999, Limb - 1, Limb - 1000>>
      [] OTHER -> Zero64

\* the timer armed delay milliseconds from now
ArmedIn(delay) ==
    [exists |-> TRUE, armed |-> TRUE, expire |-> Add64(W64(now * 1000), delay)]

\* C6: a timer callback that runs after Reset with no Stats receipt in between
\* pushes nothing and only re-arms itself for the poll interval, and the
\* chain Reset un-popped is not pushed by it
C6_TimerAfterReset ==
    [][(balloon_stats_poll_cb /\ since_reset.after) =>
          /\ svq' = svq
          /\ stats_vq_elem' = stats_vq_elem
          /\ stats_timer' = ArmedIn(PollMs(stats_poll_interval))
          /\ since_reset.unpopped \notin UsedIds(svq')]_vars

\* C6's case: the timer callback has run after Reset un-popped a held chain,
\* which is still on the ring
C6_Witness ==
    /\ last.op = "poll_cb"
    /\ since_reset.after
    /\ since_reset.unpopped # 0
    /\ svq.rewound = 1
    /\ stats_timer.armed

\* negative intervals and intervals above 2^32 - 1
InvalidPollValues ==
    {MinusOne64, <<Limb \div 2, 0, 0, 0>>, <<0, 1, 0, 0>>,
     <<Limb \div 2 - 1, Limb - 1, Limb - 1, Limb - 1>>}

\* C7: setting a negative interval or one above 2^32 - 1 returns an error and
\* leaves the stored interval and the timer as they were
C7_InvalidIntervalRejected ==
    [][\A value \in InvalidPollValues :
          balloon_stats_set_poll_interval(value) =>
              /\ last'.ret = -1
              /\ stats_poll_interval' = stats_poll_interval
              /\ stats_timer' = stats_timer]_vars

\* C7's case: an interval was refused while polling was enabled and the
\* timer armed
C7_Witness ==
    /\ last.op = "set_poll_interval"
    /\ last.ret = -1
    /\ stats_poll_interval = W64(2)
    /\ stats_timer.armed

ValidPollValues == {Zero64, W64(1), W64(2), UINT32_MAX}

\* C8: setting 0 while enabled destroys the timer and disables polling; the
\* stored value is a no-op; another nonzero value while enabled is stored and
\* the timer re-armed that many seconds from now; a nonzero value while
\* disabled creates the timer armed with no delay
C8_ValidIntervalTransitions ==
    [][\A value \in ValidPollValues :
          balloon_stats_set_poll_interval(value) =>
              /\ last'.ret = 0
              /\ (value = Zero64 /\ stats_poll_interval # Zero64)
                 => (stats_timer' = NoTimer /\ stats_poll_interval' = Zero64)
              /\ value = stats_poll_interval
                 => (stats_timer' = stats_timer /\ stats_poll_interval' = value)
              /\ (value # Zero64 /\ value # stats_poll_interval
                     /\ stats_poll_interval # Zero64)
                 => (stats_timer' = ArmedIn(PollMs(value))
                     /\ stats_poll_interval' = value)
              /\ (value # Zero64 /\ stats_poll_interval = Zero64)
                 => (stats_timer' = ArmedIn(Zero64)
                     /\ stats_poll_interval' = value)]_vars

\* C8's case: a running interval was changed to 2 seconds after the clock had
\* advanced, and the timer is due 2 seconds from now
C8_Witness ==
    /\ last.op = "set_poll_interval"
    /\ now > 0
    /\ stats_poll_interval = W64(2)
    /\ stats_timer = ArmedIn(W64(2000))

\* record k of a Stats payload
WireRecord(out, k) == SubSeq(out, (k - 1) * StatSize + 1, k * StatSize)

\* the value the guest's last record with this tag carries, or -1
LastReported(out, tag) ==
    LET hits == {k \in 1 .. (Len(out) \div StatSize) :
                    \E v \in StatsValues : WireRecord(out, k) = StatRecord(tag, v)}
        k == CHOOSE m \in hits : \A n \in hits : n <= m
    IN  IF hits = {} THEN MinusOne64
        ELSE CHOOSE v \in StatsValues : WireRecord(out, k) = StatRecord(tag, v)

\* C9: once a chain is accepted, every slot of the snapshot holds the value
\* of the chain's last record with that tag, or -1 when it has none, whatever
\* the snapshot held before; {tag 4, value 12345} alone gives free-memory
\* 12345 and -1 everywhere else
C9_SnapshotHasNoStaleValues ==
    /\ stats_vq_elem # NULL =>
           \A tag \in StatTags : stats[tag] = LastReported(stats_vq_elem.out, tag)
    /\ (stats_vq_elem # NULL /\ stats_vq_elem.out = StatRecord(4, W64(12345))) =>
           stats = [tag \in 0 .. 6 |-> IF tag = 4 THEN W64(12345) ELSE MinusOne64]

\* C9's case: a second chain reporting only free-memory was accepted after a
\* first one, and free-memory is the only slot set
C9_Witness ==
    /\ stats_vq_elem.id = 2
    /\ svq.used = <<[id |-> 1, len |-> 0]>>
    /\ stats_vq_elem.out = StatRecord(4, W64(12345))
    /\ stats[4] = W64(12345)
    /\ stats[6] = MinusOne64

\* the calls the claim expects for a legacy payload, from unit k on: one for
\* each whole 4-byte unit, on the unsigned page-frame number times 4096
RECURSIVE ExpectedPfnCalls(_, _, _)
ExpectedPfnCalls(out, k, deflate) ==
    IF k * 4 > Len(out) THEN <<>>
    ELSE LET pfn == CHOOSE p \in Pfns : LE32(p) = SubSeq(out, k * 4 - 3, k * 4)
         IN  <<[fn |-> "balloon_pages", addr |-> Mul64(<<0, 0, pfn[1], pfn[2]>>, 4096),
                size |-> 4096, deflate |-> deflate]>>
             \o ExpectedPfnCalls(out, k + 1, deflate)

RECURSIVE ExpectedRingCalls(_, _, _)
ExpectedRingCalls(avail, i, deflate) ==
    IF i > Len(avail) THEN <<>>
    ELSE ExpectedPfnCalls(avail[i].out, 1, deflate)
         \o ExpectedRingCalls(avail, i + 1, deflate)

\* C10: in legacy mode the handler makes, in payload order, one reclaim call
\* for each page-frame number, at the unsigned number shifted left by 12,
\* of length 4096, with the deflate flag set for the Deflate queue only
C10_LegacyPfnMapping ==
    [][/\ (HandleInflate /\ ~ balloon_sg_supported)
          => advised' = ExpectedRingCalls(ivq.avail, 1, FALSE)
       /\ (HandleDeflate /\ ~ balloon_sg_supported)
          => advised' = ExpectedRingCalls(dvq.avail, 1, TRUE)]_vars

\* the used entries a handler run added to ring q, which became q2
NewUsed(q, q2) == SubSeq(q2.used, Len(q.used) + 1, Len(q2.used))

\* C11: every chain an Inflate/Deflate handler run returns is pushed with
\* payload length 0, in legacy as in SG mode, and the guest is notified once
\* for each
C11_PushedWithZeroLength ==
    [][/\ HandleInflate
          => /\ \A i \in 1 .. Len(NewUsed(ivq, ivq')) : NewUsed(ivq, ivq')[i].len = 0
             /\ ivq'.notified = ivq.notified + Len(NewUsed(ivq, ivq'))
       /\ HandleDeflate
          => /\ \A i \in 1 .. Len(NewUsed(dvq, dvq')) : NewUsed(dvq, dvq')[i].len = 0
             /\ dvq'.notified = dvq.notified + Len(NewUsed(dvq, dvq'))]_vars

\* a handler run took ring q to q2 with every available chain popped, pushed
\* back exactly once in ring order and notified
Drained(q, q2) ==
    /\ q2.avail = <<>>
    /\ Len(NewUsed(q, q2)) = Len(q.avail)
    /\ \A i \in 1 .. Len(q.avail) : NewUsed(q, q2)[i].id = q.avail[i].id
    /\ q2.notified = q.notified + Len(q.avail)
    /\ last'.popped = [i \in 1 .. Len(q.avail) |-> q.avail[i].id]

\* the ranges the chains of a ring carry: input buffers in SG mode, whole
\* 4-byte units of the output payload in legacy mode
RECURSIVE RangesOnRing(_, _)
RangesOnRing(avail, i) ==
    IF i > Len(avail) THEN 0
    ELSE (IF balloon_sg_supported THEN avail[i].in_num
          ELSE Len(avail[i].out) \div 4)
         + RangesOnRing(avail, i + 1)

\* C12: one Inflate/Deflate handler run pops every available chain, pushes
\* each back once and notifies; with reclamation inhibited or synchronous-MMU
\* support missing no host memory action is taken; every range of every
\* chain is passed on, and each one that starts in RAM is advised even when
\* an earlier one was invalid
C12_OutputNeverInterrupted ==
    [][/\ HandleInflate => (Drained(ivq, ivq') /\ Len(advised') = RangesOnRing(ivq.avail, 1))
       /\ HandleDeflate => (Drained(dvq, dvq') /\ Len(advised') = RangesOnRing(dvq.avail, 1))
       /\ (HandleInflate \/ HandleDeflate)
          => IF balloon_inhibited \/ kvm_missing_sync_mmu
             THEN madvised' = <<>>
             ELSE \A i \in 1 .. Len(advised') :
                      InRam(advised'[i].addr) /\ advised'[i].size > 0
                      => \E j \in 1 .. Len(madvised') :
                             madvised'[j].addr = advised'[i].addr]_vars

\* C12's case: a run that popped two chains, whose first range was invalid
\* and a later one was advised
C12_Witness ==
    /\ last.op = "handle_output"
    /\ Len(last.popped) = 2
    /\ Len(advised) >= 2
    /\ ~ InRam(advised[1].addr)
    /\ madvised # <<>>
    /\ ivq.avail = <<>>
    /\ dvq.avail = <<>>

\* the calls the claim expects of an SG-mode ring, from chain i on: one for
\* each input buffer, on its address and length
RECURSIVE ExpectedSgCalls(_, _, _)
ExpectedSgCalls(avail, i, deflate) ==
    IF i > Len(avail) THEN <<>>
    ELSE [j \in 1 .. avail[i].in_num |->
              [fn |-> "balloon_pages", addr |-> avail[i].in[j][1],
               size |-> avail[i].in[j][2], deflate |-> deflate]]
         \o ExpectedSgCalls(avail, i + 1, deflate)

\* C13: in SG mode the handler makes, in buffer order, one reclaim call for
\* each input buffer of each chain with the buffer's address and length, the
\* deflate flag set for the Deflate queue only, and none for output buffers
C13_SgRangeMapping ==
    [][/\ (HandleInflate /\ balloon_sg_supported)
          => advised' = ExpectedSgCalls(ivq.avail, 1, FALSE)
       /\ (HandleDeflate /\ balloon_sg_supported)
          => advised' = ExpectedSgCalls(dvq.avail, 1, TRUE)]_vars

\* C13's case: an SG-mode Deflate run over two chains with three input
\* buffers between them
C13_Witness ==
    /\ balloon_sg_supported
    /\ last.op = "handle_output"
    /\ last.ret = 1
    /\ Len(last.popped) = 2
    /\ Len(advised) = 3
    /\ advised[1].deflate
    /\ advised[1].addr # advised[3].addr

\* C14: a config write raises the capacity-change event exactly when the
\* written actual differs from the stored one, carrying the machine's RAM
\* less 4096 bytes for each page of the written actual, and leaves num_pages
\* alone; a write of 80 over 100 with 1,000,000 bytes of RAM reports 672,320
C14_CapacityChangeEvent ==
    [][\A np \in ConfigWords, a \in ConfigWords :
          virtio_balloon_set_config(LE32(np) \o LE32(a)) =>
              /\ num_pages' = num_pages
              /\ actual' = a
              /\ balloon_change' =
                     IF a # actual
                     THEN <<Sub64(ram_size, Mul64(<<0, 0, a[1], a[2]>>, 4096))>>
                     ELSE <<>>
              /\ (ram_size = W64(1000000) /\ actual = <<0, 100>> /\ a = <<0, 80>>)
                 => balloon_change' = <<W64(672320)>>]_vars

\* C14's case: actual was written down to 80 on a machine of 1,000,000
\* bytes whose target had been set, and the event carried 672,320
C14_Witness ==
    /\ last.op = "set_config"
    /\ actual = <<0, 80>>
    /\ num_pages # <<0, 0>>
    /\ balloon_change = <<W64(672320)>>

\* C15: a device that is the only one to have had feature callbacks, however
\* many, has been registered exactly once and is the handler, with the
\* free-page hooks exactly when FREE_PAGE_VQ was accepted, and has not been
\* torn down
C15_RegisteredOnce ==
    \A d \in Devices :
        (negotiation[d].calls >= 1
         /\ \A e \in Devices \ {d} : negotiation[e].calls = 0)
        => /\ negotiation[d].registered = 1
           /\ balloon_opaque =
                  [opaque |-> d,
                   hooks |-> IF "FREE_PAGE_VQ" \in features THEN "free_page"
                             ELSE "plain"]
           /\ ~ negotiation[d].cleaned

\* C16: with two devices at most one has had a registration succeed, a
\* device that was refused is torn down, and a device that has had both
\* callbacks of a round is registered or torn down
C16_SecondDeviceRefused ==
    /\ Cardinality({d \in Devices : negotiation[d].registered > 0}) <= 1
    /\ \A d \in Devices :
           /\ negotiation[d].refused > 0 => negotiation[d].cleaned
           /\ (negotiation[d].calls >= 2 /\ negotiation[d].calls % 2 = 0)
              => (negotiation[d].registered > 0 \/ negotiation[d].cleaned)

\* the chain start-or-continue-reporting or collect-one works on: the held
\* one, else the next on the ring, else none
FreePageCandidate ==
    IF free_page_vq_elem # NULL THEN free_page_vq_elem ELSE PopElem(free_page_vq)

\* C17: start-or-continue-reporting returns false without FREE_PAGE_VQ, with
\* no chain held or available, and with a chain that has no output buffers;
\* it returns true only holding a chain with output buffers; it pops only
\* when it holds none
C17_SupportResult ==
    [][virtio_balloon_free_page_support =>
          /\ ~ balloon_free_page_supported => last'.ret = 0
          /\ (FreePageCandidate = NULL \/ FreePageCandidate.out_num = 0)
             => last'.ret = 0
          /\ last'.ret = 1
             => (free_page_vq_elem' # NULL /\ free_page_vq_elem'.out_num # 0)
          /\ free_page_vq_elem # NULL
             => (free_page_vq' = free_page_vq /\ last'.popped = <<>>)]_vars

\* C18: collect-one fails and pushes nothing without FREE_PAGE_VQ or with no
\* chain with output buffers held or available; when it succeeds it has
\* pushed one chain that has output buffers with length 4 and one
\* notification, and holds nothing
C18_ReportResult ==
    [][virtio_balloon_free_page_report =>
          /\ ~ balloon_free_page_supported => last'.ret = -1
          /\ (FreePageCandidate = NULL \/ FreePageCandidate.out_num = 0)
             => last'.ret = -1
          /\ last'.ret = -1
             => /\ free_page_vq'.used = free_page_vq.used
                /\ free_page_vq'.notified = free_page_vq.notified
          /\ last'.ret = 0
             => /\ FreePageCandidate.out_num # 0
                /\ NewUsed(free_page_vq, free_page_vq')
                       = <<[id |-> FreePageCandidate.id, len |-> 4]>>
                /\ free_page_vq'.notified = free_page_vq.notified + 1
                /\ free_page_vq_elem' = NULL]_vars

\* C19: with FREE_PAGE_VQ negotiated the session is idle right after Reset:
\* no chain is held and is-ready() is false
C19_ResetEndsSession ==
    [][(virtio_balloon_device_reset /\ balloon_free_page_supported)
          => /\ free_page_vq_elem' = NULL
             /\ ~ free_page_ready']_vars

\* C20: a timer callback, on either branch, leaves every slot of the
\* snapshot and last_update as they were, and nothing but a Stats receipt
\* changes them, so any number of callbacks between two receipts leaves the
\* snapshot as read before them
C20_PollLeavesSnapshot ==
    [][/\ balloon_stats_poll_cb
          => (stats' = stats /\ stats_last_update' = stats_last_update)
       /\ (stats' # stats \/ stats_last_update' # stats_last_update)
          => (ReceiveStats \/ SetStatus)]_vars

\* C20's case: the callback has pushed back a held chain whose receipt had
\* filled the free-memory slot, and the slot still holds the value
C20_Witness ==
    /\ last.op = "poll_cb"
    /\ stats_vq_elem = NULL
    /\ svq.used # <<>>
    /\ LastUsed(svq).len = StatSize
    /\ stats[4] = FreeMemory
    /\ stats_last_update > 0

\* C21: a timer callback with no Stats chain held or without STATS pushes
\* nothing and re-arms the timer poll_interval seconds from now; otherwise it
\* pushes the held chain with the length of the whole 10-byte records its
\* receipt consumed, notifies once, clears the handle and leaves the timer
\* unarmed; a timer that is not armed is armed only by a Stats receipt, an
\* interval change or a restore
C21_PollCallbackBranches ==
    [][/\ (balloon_stats_poll_cb
              /\ (stats_vq_elem = NULL \/ ~ balloon_stats_supported))
          => /\ svq' = svq
             /\ stats_vq_elem' = stats_vq_elem
             /\ stats_timer' = ArmedIn(PollMs(stats_poll_interval))
       /\ (balloon_stats_poll_cb
              /\ stats_vq_elem # NULL /\ balloon_stats_supported)
          => /\ NewUsed(svq, svq') =
                    <<[id |-> stats_vq_elem.id,
                       len |-> (Len(stats_vq_elem.out) \div 10) * 10]>>
             /\ svq'.notified = svq.notified + 1
             /\ stats_vq_elem' = NULL
             /\ stats_timer'.exists
             /\ ~ stats_timer'.armed
       /\ (~ stats_timer.armed /\ stats_timer'.armed)
          => \/ ReceiveStats
             \/ SetStatus /\ last'.ret % 2 = 1
             \/ SetAnyPollInterval
             \/ virtio_balloon_post_load_device]_vars

\* C21's case: the callback pushed back the held chain with the 10 bytes
\* its receipt had consumed, and the timer is left unarmed
C21_Witness ==
    /\ last.op = "poll_cb"
    /\ stats_vq_elem = NULL
    /\ svq.used # <<>>
    /\ LastUsed(svq).len = 10
    /\ stats_vq_offset = 10
    /\ stats_timer.exists
    /\ ~ stats_timer.armed

\* C22: the poll timer exists exactly when the stored interval is greater
\* than zero, the assertion on creating a timer has not failed, and no timer
\* that does not exist has been re-armed
C22_TimerExistsIffEnabled ==
    /\ stats_timer.exists <=> I64Less(Zero64, stats_poll_interval)
    /\ stats_timer.armed => stats_timer.exists
    /\ fault \notin {"assert", "null timer"}

\* C22's case: polling was switched off again after a callback had run, and
\* neither timer nor interval is left
C22_Witness ==
    /\ last.op = "set_poll_interval"
    /\ last.ret = 0
    /\ svq.used # <<>>
    /\ LastUsed(svq).len = 10
    /\ stats_poll_interval = Zero64
    /\ stats_timer = NoTimer

\* C23: whenever polling is enabled and a Stats chain is held the poll timer
\* is armed; and with STATS negotiated, a chain held while polling is enabled
\* is in the end no longer held (pushed back by the callback or a newer
\* receipt, or un-popped by Reset) unless polling is switched off
C23_HeldStatsNotStranded ==
    /\ []((balloon_stats_enabled /\ stats_vq_elem # NULL)
             => (stats_timer.exists /\ stats_timer.armed))
    /\ \A id \in 1 .. MaxTimerChains :
           (balloon_stats_supported /\ balloon_stats_enabled
               /\ stats_vq_elem.id = id)
           ~> (stats_vq_elem.id # id \/ ~ balloon_stats_enabled)

\* C23's case: with polling enabled and STATS negotiated the callback has
\* pushed the second chain back, the first having been returned empty
C23_Witness ==
    /\ last.op = "poll_cb"
    /\ balloon_stats_supported
    /\ balloon_stats_enabled
    /\ stats_vq_elem = NULL
    /\ Len(svq.used) = 2
    /\ svq.used[1] = [id |-> 1, len |-> 0]
    /\ svq.used[2].id = 2

====
